---- MODULE Spec2Model ----
(***************************************************************************)
(* The load_parks management command of the Seattle parks tracker          *)
(* (parks/management/commands/load_parks.py) and the Park table it writes   *)
(* (parks/models.py).                                                       *)
(*                                                                          *)
(* Numbers.  Python floats are modelled as exact rationals <<n, d>> with    *)
(* d > 0 in lowest terms.  The EPSG:2926 -> EPSG:4326 projection is         *)
(* pyproj's; it is modelled as a translation of a planar grid whose unit    *)
(* is one degree, which keeps what the command relies on: it is a           *)
(* deterministic, injective, per-axis monotone map.                         *)
(*                                                                          *)
(* JSON.  An object's key is either absent (Null) or present with a value   *)
(* (NotNull(v)); a nullable column holds Null or NotNull(v).  json.dumps    *)
(* is modelled by TLC's ToString, an injective serialisation to a string.   *)
(***************************************************************************)
EXTENDS Integers, Sequences, FiniteSets, TLC

VARIABLES
    files,               \* data/Park_Boundaries_*.geojson and data/Park_Signs_*.geojson
    store,               \* the rows of the Park table
    pc,                  \* position of the command: idle, load, loop, done, aborted
    clear,               \* options['clear'] of the running invocation
    boundaries_data,     \* features of the loaded boundaries file
    signs_data,          \* features of the loaded signs file
    rainbow_signs,       \* PMAID -> list of rainbow sign features
    i,                   \* number of boundary features the loop has consumed
    parks_created,
    parks_updated,
    parks_skipped,
    parks_with_signs,
    parks_without_signs,
    store0,              \* history: the table when the invocation started
    upserted,            \* history: pma ids update_or_create has written in this invocation
    rerun                \* history: same files as the previous completed run, neither with --clear

vars == <<files, store, pc, clear, boundaries_data, signs_data, rainbow_signs, i,
          parks_created, parks_updated, parks_skipped, parks_with_signs,
          parks_without_signs, store0, upserted, rerun>>

(***************************************************************************)
(* Bounds of the model.                                                    *)
(***************************************************************************)
MaxFeatures == 3
MaxSigns == 2

(***************************************************************************)
(* Optional values and Python's dict.get / str.                            *)
(***************************************************************************)
Null == <<>>
NotNull(v) == <<v>>
Get(opt, default) == IF opt = Null THEN default ELSE opt[1]
Str(n) == ToString(n)
Dumps(v) == ToString(v)

(***************************************************************************)
(* Rational arithmetic standing for float arithmetic.                      *)
(***************************************************************************)
Abs(n) == IF n < 0 THEN -n ELSE n

RECURSIVE GCD(_, _)
GCD(a, b) == IF b = 0 THEN a ELSE GCD(b, a % b)

Div(n, d) == LET g == GCD(Abs(n), d) IN <<n \div g, d \div g>>
Num(n) == <<n, 1>>
Less(a, b) == a[1] * b[2] < b[1] * a[2]

(***************************************************************************)
(* What json.load gives for a point of a ring: a list of numbers (a JSON   *)
(* array) or a dict (a JSON object, whose keys are strings, so that        *)
(* point[0] raises KeyError whatever its members are).                     *)
(***************************************************************************)
Array(items) == [json |-> "array", items |-> items]
Object == [json |-> "object", items |-> <<>>]

RECURSIVE SumCoord(_, _)
SumCoord(ring, k) ==
    IF ring = <<>> THEN 0 ELSE Head(ring).items[k] + SumCoord(Tail(ring), k)

(***************************************************************************)
(* Command.transform_point: the projection, applied to a planar point      *)
(* whose coordinates are rationals.                                        *)
(***************************************************************************)
LonOrigin == -124
LatOrigin == 46
transform_point(x, y) ==
    << Div(x[1] + LonOrigin * x[2], x[2]), Div(y[1] + LatOrigin * y[2], y[2]) >>

(***************************************************************************)
(* Command.calculate_centroid_wgs84.  IndexError (no first polygon, no     *)
(* first ring, a point with fewer than two coordinates) and                *)
(* ZeroDivisionError (an empty ring) are caught and give the sentinel.     *)
(* KeyError is not in the except clause of line 196: the first sum of      *)
(* line 186 reads point[0] of each point in order, and a point that is a   *)
(* JSON object met before any empty point raises it to the caller.         *)
(***************************************************************************)
Sentinel == <<Num(0), Num(0)>>

RingCentroidRaises(ring) ==
    \E k \in 1..Len(ring) :
        /\ ring[k].json = "object"
        /\ \A j \in 1..(k - 1) : ring[j].json = "array" /\ Len(ring[j].items) >= 1

CentroidRaises(geometry) ==
    LET geom_type == Get(geometry.type, "")
        coords == Get(geometry.coordinates, <<>>)
    IN  IF geom_type = "MultiPolygon"
        THEN Len(coords) > 0 /\ Len(coords[1]) > 0 /\ RingCentroidRaises(coords[1][1])
        ELSE IF geom_type = "Polygon"
        THEN Len(coords) > 0 /\ RingCentroidRaises(coords[1])
        ELSE FALSE

RingCentroid(ring) ==
    IF \E k \in 1..Len(ring) : ring[k].json = "object" \/ Len(ring[k].items) < 2
    THEN Sentinel
    ELSE IF Len(ring) = 0 THEN Sentinel
    ELSE transform_point(Div(SumCoord(ring, 1), Len(ring)),
                         Div(SumCoord(ring, 2), Len(ring)))

calculate_centroid_wgs84(geometry) ==
    LET geom_type == Get(geometry.type, "")
        coords == Get(geometry.coordinates, <<>>)
    IN  IF geom_type = "MultiPolygon"
        THEN IF Len(coords) = 0 THEN Sentinel
             ELSE IF Len(coords[1]) = 0 THEN Sentinel
             ELSE RingCentroid(coords[1][1])
        ELSE IF geom_type = "Polygon"
        THEN IF Len(coords) = 0 THEN Sentinel
             ELSE RingCentroid(coords[1])
        ELSE Sentinel

(***************************************************************************)
(* Command.transform_geometry.  Nothing is caught here: a point with fewer *)
(* than two coordinates raises IndexError to the caller, and a point that  *)
(* is a JSON object raises KeyError.                                       *)
(***************************************************************************)
TransformRing(ring) ==
    [k \in 1..Len(ring) |->
        transform_point(Num(ring[k].items[1]), Num(ring[k].items[2]))]

TransformPolygon(polygon) ==
    [k \in 1..Len(polygon) |-> TransformRing(polygon[k])]

RingRaises(ring) ==
    \E k \in 1..Len(ring) : ring[k].json = "object" \/ Len(ring[k].items) < 2

PolygonRaises(polygon) == \E k \in 1..Len(polygon) : RingRaises(polygon[k])

TransformGeometryRaises(geometry) ==
    LET geom_type == Get(geometry.type, "")
        coords == Get(geometry.coordinates, <<>>)
    IN  IF geom_type = "Polygon" THEN PolygonRaises(coords)
        ELSE IF geom_type = "MultiPolygon"
        THEN \E k \in 1..Len(coords) : PolygonRaises(coords[k])
        ELSE FALSE

transform_geometry(geometry) ==
    LET geom_type == Get(geometry.type, "")
        coords == Get(geometry.coordinates, <<>>)
    IN  IF geom_type = "Polygon"
        THEN [type |-> geom_type, coordinates |-> TransformPolygon(coords)]
        ELSE IF geom_type = "MultiPolygon"
        THEN [type |-> geom_type,
              coordinates |-> [k \in 1..Len(coords) |-> TransformPolygon(coords[k])]]
        ELSE geometry

(***************************************************************************)
(* handle, lines 57-65: the rainbow sign lookup.  Only features whose      *)
(* SIGN_TP is "RAINBOW" and whose PMAID is truthy are grouped, each group  *)
(* in input order; a key that was never added is not in the mapping.       *)
(***************************************************************************)
\* Mutant: the sign type is not looked at.
Indexed_AnyType(sign) ==
    /\ sign.properties.PMAID # Null
    /\ sign.properties.PMAID[1] # ""

Indexed(sign) ==
    /\ sign.properties.SIGN_TP = NotNull("RAINBOW")
    /\ sign.properties.PMAID # Null
    /\ sign.properties.PMAID[1] # ""

BuildIndex(signs) ==
    LET keys == {signs[k].properties.PMAID[1] : k \in {n \in 1..Len(signs) : Indexed(signs[n])}}
    IN  [key \in keys |->
            SelectSeq(signs, LAMBDA s : Indexed(s) /\ s.properties.PMAID[1] = key)]

Lookup(index, key) == IF key \in DOMAIN index THEN index[key] ELSE <<>>

(***************************************************************************)
(* handle, lines 106-112: the sign's point is read as coordinates[0] and   *)
(* coordinates[1] (IndexError when there are fewer) and projected.         *)
(***************************************************************************)
SignRaises(sign) == Len(sign.geometry.coordinates) < 2

SignLocation(sign) ==
    transform_point(Num(sign.geometry.coordinates[1]), Num(sign.geometry.coordinates[2]))

SignLocations(park_signs) == [k \in 1..Len(park_signs) |-> SignLocation(park_signs[k])]

(***************************************************************************)
(* handle, line 115: the Seattle bounding box.                             *)
(***************************************************************************)
LonMin == -123
LonMax == -121
LatMin == 47
LatMax == 48
\* Mutant: the bounds are inclusive.
InSeattle_Inclusive(longitude, latitude) ==
    /\ ~Less(longitude, Num(LonMin)) /\ ~Less(Num(LonMax), longitude)
    /\ ~Less(latitude, Num(LatMin)) /\ ~Less(Num(LatMax), latitude)

InSeattle(longitude, latitude) ==
    /\ Less(Num(LonMin), longitude) /\ Less(longitude, Num(LonMax))
    /\ Less(Num(LatMin), latitude) /\ Less(latitude, Num(LatMax))

(***************************************************************************)
(* handle, lines 123-128: acres = round(area_sqft / 43560.0, 2), kept as a *)
(* whole number of hundredths of an acre; a missing or zero area is None.  *)
(***************************************************************************)
SqFtPerAcre == 43560
Acres(area_sqft) ==
    IF area_sqft = Null \/ area_sqft[1] = 0 THEN Null
    ELSE NotNull((2 * 100 * area_sqft[1] + SqFtPerAcre) \div (2 * SqFtPerAcre))

(***************************************************************************)
(* handle, lines 130-131 and 141: external_id = str(OBJECTID or ''), and   *)
(* the empty string is stored as NULL.                                     *)
(***************************************************************************)
ExternalId(objectid) ==
    LET external_id == IF objectid = Null THEN "" ELSE Str(objectid[1])
    IN  IF external_id # "" THEN NotNull(external_id) ELSE Null

(***************************************************************************)
(* handle, lines 136-145: the defaults of update_or_create.                *)
(***************************************************************************)
\* Mutant: the list of locations is serialised even when it is empty.
Defaults_AlwaysDumps(name, latitude, longitude, acres, external_id, transformed_geometry, has_rainbow_sign, rainbow_sign_locations) ==
    [name |-> name,
     latitude |-> latitude,
     longitude |-> longitude,
     acres |-> acres,
     external_id |-> external_id,
     boundary_geojson |-> NotNull(Dumps(transformed_geometry)),
     has_rainbow_sign |-> has_rainbow_sign,
     rainbow_sign_locations |->
         NotNull(Dumps(rainbow_sign_locations))]

Defaults(name, latitude, longitude, acres, external_id, transformed_geometry, has_rainbow_sign, rainbow_sign_locations) ==
    [name |-> name,
     latitude |-> latitude,
     longitude |-> longitude,
     acres |-> acres,
     external_id |-> external_id,
     boundary_geojson |-> NotNull(Dumps(transformed_geometry)),
     has_rainbow_sign |-> has_rainbow_sign,
     rainbow_sign_locations |->
         IF rainbow_sign_locations # <<>> THEN NotNull(Dumps(rainbow_sign_locations))
         ELSE Null]

(***************************************************************************)
(* Park.objects.update_or_create(pma_id=..., defaults=...) on the Park     *)
(* table: the row with that pma_id is updated in place, or a row is        *)
(* inserted; the unique constraint on external_id (models.py line 20)      *)
(* makes either fail with IntegrityError, leaving the table as it was.     *)
(***************************************************************************)
Row(pma_id, defaults) ==
    [pma_id |-> NotNull(pma_id),
     name |-> defaults.name,
     latitude |-> defaults.latitude,
     longitude |-> defaults.longitude,
     acres |-> defaults.acres,
     external_id |-> defaults.external_id,
     boundary_geojson |-> defaults.boundary_geojson,
     has_rainbow_sign |-> defaults.has_rainbow_sign,
     rainbow_sign_locations |-> defaults.rainbow_sign_locations]

\* Mutant: external_id is not unique, the row is written whatever the others hold.
update_or_create_NotUnique(objects, pma_id, defaults) ==
    LET matching == {r \in objects : r.pma_id = NotNull(pma_id)}
    IN  [raised |-> FALSE,
         objects |-> (objects \ matching) \cup {Row(pma_id, defaults)},
         created |-> matching = {}]

\* Mutant: a clash on external_id is resolved by dropping the row that held it.
update_or_create_Evicts(objects, pma_id, defaults) ==
    LET matching == {r \in objects : r.pma_id = NotNull(pma_id)}
        kept == {r \in objects \ matching :
                    defaults.external_id = Null \/ r.external_id # defaults.external_id}
    IN  [raised |-> FALSE,
         objects |-> kept \cup {Row(pma_id, defaults)},
         created |-> matching = {}]

update_or_create(objects, pma_id, defaults) ==
    LET matching == {r \in objects : r.pma_id = NotNull(pma_id)}
        others == objects \ matching
        clash == /\ defaults.external_id # Null
                 /\ \E r \in others : r.external_id = defaults.external_id
    IN  IF clash
        THEN [raised |-> TRUE, objects |-> objects, created |-> FALSE]
        ELSE [raised |-> FALSE,
              objects |-> others \cup {Row(pma_id, defaults)},
              created |-> matching = {}]

(***************************************************************************)
(* handle, lines 76-156: what one pass of the loop body does to the table  *)
(* and the counters, as the increments it makes.  `raised` tells that the  *)
(* except clause of lines 153-156 ran.                                     *)
(***************************************************************************)
NoEffect(objects) ==
    [objects |-> objects, created |-> 0, updated |-> 0, skipped |-> 0,
     with_signs |-> 0, without_signs |-> 0, upserted |-> {}, raised |-> FALSE,
     next |-> "loop"]

Rejected(effect) == [effect EXCEPT !.skipped = 1]

\* Mutant: the except clause logs the failure and does not count it.
ExceptClause_Uncounted(effect) == [effect EXCEPT !.raised = TRUE]

\* Mutant: the exception is not caught and ends the command.
ExceptClause_Propagates(effect) == [effect EXCEPT !.raised = TRUE, !.next = "aborted"]

ExceptClause(effect) == [effect EXCEPT !.skipped = 1, !.raised = TRUE]

(***************************************************************************)
(* handle, line 83: not name or name == 'Unknown Park'.                    *)
(***************************************************************************)
\* Mutant: the placeholder name is let through.
MissingName_OnlyEmpty(name) == name = ""

MissingName(name) == name = "" \/ name = "Unknown Park"

ProcessFeature(feature, objects, index) ==
    LET props == feature.properties
        geometry == feature.geometry
        name == Get(props.NAME, "Unknown Park")
        pma == props.PMA
    IN  IF MissingName(name) THEN Rejected(NoEffect(objects))
        ELSE IF pma = Null THEN Rejected(NoEffect(objects))
        ELSE
        LET pma_str == Str(pma[1])
            park_signs == Lookup(index, pma_str)
            has_rainbow_sign == Len(park_signs) > 0
            counted == [NoEffect(objects) EXCEPT
                           !.with_signs = IF has_rainbow_sign THEN 1 ELSE 0,
                           !.without_signs = IF has_rainbow_sign THEN 0 ELSE 1]
            centroid == calculate_centroid_wgs84(geometry)
            longitude == centroid[1]
            latitude == centroid[2]
        IN  IF CentroidRaises(geometry) THEN ExceptClause(counted)
            ELSE IF \E k \in 1..Len(park_signs) : SignRaises(park_signs[k])
            THEN ExceptClause(counted)
            ELSE IF ~InSeattle(longitude, latitude) THEN Rejected(counted)
            ELSE IF TransformGeometryRaises(geometry) THEN ExceptClause(counted)
            ELSE
            LET defaults == Defaults(name, latitude, longitude,
                                     Acres(props.PARKSBND_AREA),
                                     ExternalId(props.OBJECTID),
                                     transform_geometry(geometry),
                                     has_rainbow_sign,
                                     SignLocations(park_signs))
                result == update_or_create(objects, pma_str, defaults)
            IN  IF result.raised THEN ExceptClause(counted)
                ELSE [counted EXCEPT
                         !.objects = result.objects,
                         !.created = IF result.created THEN 1 ELSE 0,
                         !.updated = IF result.created THEN 0 ELSE 1,
                         !.upserted = {pma_str}]

(***************************************************************************)
(* The two input files: readable JSON with a list of features, or not      *)
(* (missing, unreadable, malformed).                                       *)
(***************************************************************************)
SeqsUpTo(S, n) == UNION {[1..k -> S] : k \in 0..n}

Readable(features) == [ok |-> TRUE, features |-> features]
Unreadable == [ok |-> FALSE, features |-> <<>>]

\* Mutant: the signs file is not read before the loop.
CanLoad_BoundariesOnly(fs) == fs.boundaries.ok

CanLoad(fs) == fs.boundaries.ok /\ fs.signs.ok

(***************************************************************************)
(* Between invocations the operator edits the two files: a file is         *)
(* replaced by an empty collection or by something unreadable, or a        *)
(* feature is appended to it.                                              *)
(***************************************************************************)
Edits(file, Universe, max) ==
    {Readable(<<>>), Unreadable}
    \cup {Readable(Append(file.features, f)) :
            f \in {u \in Universe : file.ok /\ Len(file.features) < max}}

WriteFiles(Features, Signs) ==
    /\ pc = "idle"
    /\ \/ \E b \in Edits(files.boundaries, Features, MaxFeatures) :
            files' = [files EXCEPT !.boundaries = b]
       \/ \E s \in Edits(files.signs, Signs, MaxSigns) :
            files' = [files EXCEPT !.signs = s]
    /\ files' # files
    /\ rerun' = FALSE
    /\ UNCHANGED <<store, pc, clear, boundaries_data, signs_data, rainbow_signs, i,
                   parks_created, parks_updated, parks_skipped, parks_with_signs,
                   parks_without_signs, store0, upserted>>

(***************************************************************************)
(* handle, line 36: Park.objects.all().delete().                           *)
(***************************************************************************)
\* Mutant: only the rows without a rainbow sign are deleted.
DeleteAll_KeepsSigned(objects) == {r \in objects : r.has_rainbow_sign}

DeleteAll(objects) == {}

(***************************************************************************)
(* handle, lines 33-36: the invocation starts; --clear deletes every row.  *)
(***************************************************************************)
Begin ==
    /\ pc = "idle"
    /\ \E c \in BOOLEAN :
        /\ clear' = c
        /\ store' = IF c THEN DeleteAll(store) ELSE store
        /\ rerun' = (rerun /\ ~c)
    /\ store0' = store
    /\ pc' = "load"
    /\ UNCHANGED <<files, boundaries_data, signs_data, rainbow_signs, i,
                   parks_created, parks_updated, parks_skipped, parks_with_signs,
                   parks_without_signs, upserted>>

(***************************************************************************)
(* handle, lines 43-74: both files are read, the sign lookup is built and  *)
(* the counters are initialised.                                           *)
(***************************************************************************)
LoadFiles ==
    /\ pc = "load"
    /\ CanLoad(files)
    /\ boundaries_data' = files.boundaries.features
    /\ signs_data' = files.signs.features
    /\ rainbow_signs' = BuildIndex(files.signs.features)
    /\ pc' = "loop"
    /\ UNCHANGED <<files, store, clear, i, parks_created, parks_updated, parks_skipped,
                   parks_with_signs, parks_without_signs, store0, upserted, rerun>>

(***************************************************************************)
(* handle, lines 50-55: open or json.load raises and nothing catches it.   *)
(***************************************************************************)
AbortLoad ==
    /\ pc = "load"
    /\ ~CanLoad(files)
    /\ pc' = "aborted"
    /\ UNCHANGED <<files, store, clear, boundaries_data, signs_data, rainbow_signs, i,
                   parks_created, parks_updated, parks_skipped, parks_with_signs,
                   parks_without_signs, store0, upserted, rerun>>

(***************************************************************************)
(* handle, lines 76-156: one pass of the loop over the boundary features.  *)
(***************************************************************************)
LoopBody ==
    /\ pc = "loop"
    /\ i < Len(boundaries_data)
    /\ \E effect \in {ProcessFeature(boundaries_data[i + 1], store, rainbow_signs)} :
           /\ store' = effect.objects
           /\ parks_created' = parks_created + effect.created
           /\ parks_updated' = parks_updated + effect.updated
           /\ parks_skipped' = parks_skipped + effect.skipped
           /\ parks_with_signs' = parks_with_signs + effect.with_signs
           /\ parks_without_signs' = parks_without_signs + effect.without_signs
           /\ upserted' = upserted \cup effect.upserted
           /\ pc' = effect.next
    /\ i' = i + 1
    /\ UNCHANGED <<files, clear, boundaries_data, signs_data, rainbow_signs, store0, rerun>>

(***************************************************************************)
(* handle, lines 158-163: the loop is over and the counts are reported.    *)
(***************************************************************************)
Report ==
    /\ pc = "loop"
    /\ i = Len(boundaries_data)
    /\ pc' = "done"
    /\ UNCHANGED <<files, store, clear, boundaries_data, signs_data, rainbow_signs, i,
                   parks_created, parks_updated, parks_skipped, parks_with_signs,
                   parks_without_signs, store0, upserted, rerun>>

(***************************************************************************)
(* The process exits; the locals of handle are gone.                       *)
(***************************************************************************)
Exit ==
    /\ pc \in {"done", "aborted"}
    /\ pc' = "idle"
    /\ rerun' = (pc = "done" /\ ~clear)
    /\ clear' = FALSE
    /\ boundaries_data' = <<>>
    /\ signs_data' = <<>>
    /\ rainbow_signs' = <<>>
    /\ i' = 0
    /\ parks_created' = 0
    /\ parks_updated' = 0
    /\ parks_skipped' = 0
    /\ parks_with_signs' = 0
    /\ parks_without_signs' = 0
    /\ store0' = store
    /\ upserted' = {}
    /\ UNCHANGED <<files, store>>

Init ==
    /\ files = [boundaries |-> Unreadable, signs |-> Unreadable]
    /\ store = {}
    /\ pc = "idle"
    /\ clear = FALSE
    /\ boundaries_data = <<>>
    /\ signs_data = <<>>
    /\ rainbow_signs = <<>>
    /\ i = 0
    /\ parks_created = 0
    /\ parks_updated = 0
    /\ parks_skipped = 0
    /\ parks_with_signs = 0
    /\ parks_without_signs = 0
    /\ store0 = {}
    /\ upserted = {}
    /\ rerun = FALSE

(***************************************************************************)
(* Input features.  Planar points are grid points; the projection takes    *)
(* x to x - 124 degrees of longitude and y to y + 46 degrees of latitude.  *)
(***************************************************************************)
Boundary(name, pma, area, objectid, type, coordinates) ==
    [properties |-> [NAME |-> name, PMA |-> pma, PARKSBND_AREA |-> area,
                     OBJECTID |-> objectid],
     geometry |-> [type |-> type, coordinates |-> coordinates]]

Sign(sign_tp, pmaid, coordinates) ==
    [properties |-> [SIGN_TP |-> sign_tp, PMAID |-> pmaid],
     geometry |-> [coordinates |-> coordinates]]

Ring(points) == [k \in 1..Len(points) |-> Array(points[k])]

RingA == Ring(<< <<2, 1>>, <<2, 2>> >>)
RingB == Ring(<< <<1, 1>>, <<2, 2>> >>)
Polygon(ring) == NotNull(<<ring>>)
MultiPolygon(ring) == NotNull(<< <<ring>> >>)

GreenLake ==
    Boundary(NotNull("Green Lake"), NotNull(1), NotNull(87120), NotNull(5),
             NotNull("Polygon"), Polygon(RingA))
GreenLakePark ==
    Boundary(NotNull("Green Lake Park"), NotNull(1), Null, Null,
             NotNull("MultiPolygon"), MultiPolygon(RingB))
Alki ==
    Boundary(NotNull("Alki"), NotNull(2), NotNull(0), NotNull(5),
             NotNull("Polygon"), Polygon(RingB))
AlkiBeach ==
    Boundary(NotNull("Alki Beach"), NotNull(2), NotNull(10000), NotNull(6),
             NotNull("Polygon"), Polygon(RingA))
NoPma ==
    Boundary(NotNull("No Pma"), Null, NotNull(87120), NotNull(7),
             NotNull("Polygon"), Polygon(RingA))

RainbowAt1 == Sign(NotNull("RAINBOW"), NotNull("1"), <<2, 1>>)

UpsertFeatures == {GreenLake, GreenLakePark, Alki, AlkiBeach, NoPma}
UpsertSigns == {RainbowAt1}

(***************************************************************************)
(* Inputs about the signs collection: two parks, and signs that name the   *)
(* first park, name no park, or are not rainbow signs.                     *)
(***************************************************************************)
RainbowAt1North == Sign(NotNull("RAINBOW"), NotNull("1"), <<2, 2>>)
KioskAt1 == Sign(NotNull("KIOSK"), NotNull("1"), <<1, 1>>)
RainbowNoPmaid == Sign(NotNull("RAINBOW"), Null, <<1, 2>>)

SignFeatures == {GreenLake, AlkiBeach}
SignSigns == {RainbowAt1, RainbowAt1North, KioskAt1, RainbowNoPmaid}

(***************************************************************************)
(* Inputs about the bounding box: centroids on each edge of the box, at    *)
(* (0, 0) and at (-130, 10).                                               *)
(***************************************************************************)
Edge(name, ring) ==
    Boundary(NotNull(name), NotNull(3), Null, Null, NotNull("Polygon"), Polygon(Ring(ring)))

WestEdge == Edge("West Edge", << <<1, 1>>, <<1, 2>> >>)
EastEdge == Edge("East Edge", << <<3, 1>>, <<3, 2>> >>)
SouthEdge == Edge("South Edge", << <<2, 1>> >>)
NorthEdge == Edge("North Edge", << <<2, 2>> >>)
Origin == Edge("Origin", << <<124, -46>> >>)
FarAway == Edge("Far Away", << <<-6, -36>> >>)

BoxFeatures == {GreenLake, WestEdge, EastEdge, SouthEdge, NorthEdge, Origin, FarAway}
BoxSigns == {}

(***************************************************************************)
(* Inputs about the required properties: NAME absent, empty or the         *)
(* placeholder, PMA absent.                                                *)
(***************************************************************************)
NoName ==
    Boundary(Null, NotNull(1), NotNull(87120), NotNull(9),
             NotNull("Polygon"), Polygon(RingB))
EmptyName ==
    Boundary(NotNull(""), NotNull(1), NotNull(87120), NotNull(9),
             NotNull("Polygon"), Polygon(RingB))
UnknownPark ==
    Boundary(NotNull("Unknown Park"), NotNull(1), NotNull(87120), NotNull(9),
             NotNull("Polygon"), Polygon(RingB))

RejectFeatures == {GreenLake, NoName, EmptyName, UnknownPark, NoPma}
RejectSigns == {RainbowAt1}

(***************************************************************************)
(* Inputs that make the loop body raise: a boundary whose second ring has  *)
(* a one-coordinate point, a sign with a one-coordinate point, and two     *)
(* parks with the same OBJECTID.                                           *)
(***************************************************************************)
BrokenRing ==
    Boundary(NotNull("Broken Ring"), NotNull(3), Null, NotNull(8),
             NotNull("Polygon"), NotNull(<<RingA, Ring(<< <<2>> >>)>>))
RainbowBroken == Sign(NotNull("RAINBOW"), NotNull("2"), <<2>>)

FailureFeatures == {GreenLake, Alki, AlkiBeach, BrokenRing}
FailureSigns == {RainbowBroken}

(***************************************************************************)
(* Inputs about the geometry: a Polygon and a MultiPolygon of the same     *)
(* park, a LineString, a Polygon whose outer ring is empty, a MultiPolygon *)
(* without polygons, and Polygons whose outer ring has a one-coordinate    *)
(* point or a point that is a JSON object.                                 *)
(***************************************************************************)
Shape(name, type, coordinates) ==
    Boundary(NotNull(name), NotNull(4), Null, Null, NotNull(type), NotNull(coordinates))

Trail == Shape("Trail", "LineString", RingA)
EmptyRing == Shape("Empty Ring", "Polygon", << <<>> >>)
NoPolygons == Shape("No Polygons", "MultiPolygon", <<>>)
ShortPoint == Shape("Short Point", "Polygon", << <<Array(<<2, 1>>), Array(<<2>>)>> >>)
ObjectPoint == Shape("Object Point", "Polygon", << <<Array(<<2, 1>>), Object>> >>)

GeometryFeatures ==
    {GreenLake, GreenLakePark, Trail, EmptyRing, NoPolygons, ShortPoint, ObjectPoint}
GeometrySigns == {}

Next ==
    \/ WriteFiles(UpsertFeatures, UpsertSigns)
    \/ Begin
    \/ LoadFiles
    \/ AbortLoad
    \/ LoopBody
    \/ Report
    \/ Exit

Spec == Init /\ [][Next]_vars

NextSigns ==
    \/ WriteFiles(SignFeatures, SignSigns)
    \/ Begin
    \/ LoadFiles
    \/ AbortLoad
    \/ LoopBody
    \/ Report
    \/ Exit

SpecSigns == Init /\ [][NextSigns]_vars

NextBox ==
    \/ WriteFiles(BoxFeatures, BoxSigns)
    \/ Begin
    \/ LoadFiles
    \/ AbortLoad
    \/ LoopBody
    \/ Report
    \/ Exit

SpecBox == Init /\ [][NextBox]_vars

NextReject ==
    \/ WriteFiles(RejectFeatures, RejectSigns)
    \/ Begin
    \/ LoadFiles
    \/ AbortLoad
    \/ LoopBody
    \/ Report
    \/ Exit

SpecReject == Init /\ [][NextReject]_vars

NextFailure ==
    \/ WriteFiles(FailureFeatures, FailureSigns)
    \/ Begin
    \/ LoadFiles
    \/ AbortLoad
    \/ LoopBody
    \/ Report
    \/ Exit

SpecFailure == Init /\ [][NextFailure]_vars

NextGeometry ==
    \/ WriteFiles(GeometryFeatures, GeometrySigns)
    \/ Begin
    \/ LoadFiles
    \/ AbortLoad
    \/ LoopBody
    \/ Report
    \/ Exit

SpecGeometry == Init /\ [][NextGeometry]_vars

(***************************************************************************)
(* Vocabulary of the properties.                                           *)
(***************************************************************************)
Running == pc \in {"load", "loop", "done", "aborted"}

NameOf(feature) == Get(feature.properties.NAME, "Unknown Park")

HasName(feature) == NameOf(feature) \notin {"", "Unknown Park"}

HasPma(feature) == feature.properties.PMA # Null

IdOf(feature) == Str(feature.properties.PMA[1])

\* The rainbow signs of the signs collection that name the park id, in input order.
MatchingSigns(signs, id) ==
    SelectSeq(signs, LAMBDA s : /\ s.properties.SIGN_TP = NotNull("RAINBOW")
                                /\ s.properties.PMAID = NotNull(id))

CentroidInBox(feature) ==
    LET c == calculate_centroid_wgs84(feature.geometry)
    IN  /\ -123 * c[1][2] < c[1][1] /\ c[1][1] < -121 * c[1][2]
        /\ 47 * c[2][2] < c[2][1] /\ c[2][1] < 48 * c[2][2]

\* A feature that passes every validation and whose processing raises nothing
\* before the upsert.
Accepted(feature, signs) ==
    /\ HasName(feature)
    /\ HasPma(feature)
    /\ CentroidInBox(feature)
    /\ ~TransformGeometryRaises(feature.geometry)
    /\ LET m == MatchingSigns(signs, IdOf(feature))
       IN  \A k \in 1..Len(m) : ~SignRaises(m[k])

AcceptedIndices == {k \in 1..Len(boundaries_data) : Accepted(boundaries_data[k], signs_data)}

\* The row the command computes for an accepted feature.
RowOf(feature, signs) ==
    LET c == calculate_centroid_wgs84(feature.geometry)
        m == MatchingSigns(signs, IdOf(feature))
    IN  Row(IdOf(feature),
            Defaults(NameOf(feature), c[2], c[1],
                     Acres(feature.properties.PARKSBND_AREA),
                     ExternalId(feature.properties.OBJECTID),
                     transform_geometry(feature.geometry),
                     Len(m) > 0, SignLocations(m)))

RowsWithId(objects, id) == {r \in objects : r.pma_id = NotNull(id)}

(***************************************************************************)
(* C1.  A run without --clear whose boundaries hold one accepted feature:  *)
(* it reports created = 1 when the table had no row for the feature's id   *)
(* and updated = 1, created = 0 when it had one, and afterwards the table  *)
(* holds exactly one row with that id, with every field as computed from   *)
(* the feature.                                                            *)
(***************************************************************************)
C1_UpsertOverwrites ==
    (pc = "done" /\ ~clear /\ Cardinality(AcceptedIndices) = 1) =>
        LET feature == boundaries_data[CHOOSE k \in AcceptedIndices : TRUE]
            had == RowsWithId(store0, IdOf(feature)) # {}
        IN  /\ parks_created = IF had THEN 0 ELSE 1
            /\ parks_updated = IF had THEN 1 ELSE 0
            /\ RowsWithId(store, IdOf(feature)) = {RowOf(feature, signs_data)}

(***************************************************************************)
(* C2.  A run without --clear on the files of the previous completed run   *)
(* without --clear leaves the table as that previous run left it.          *)
(***************************************************************************)
C2_RerunIdempotent == (pc = "done" /\ rerun) => store = store0

(***************************************************************************)
(* C8.  While an invocation runs on files of which one cannot be loaded,   *)
(* the loop never starts: no feature is consumed, nothing is created or    *)
(* updated, and the table holds no row it did not hold at the start.       *)
(***************************************************************************)
C8_AbortBeforeUpsert ==
    (Running /\ ~(files.boundaries.ok /\ files.signs.ok)) =>
        /\ pc \in {"load", "aborted"}
        /\ i = 0
        /\ parks_created = 0
        /\ parks_updated = 0
        /\ upserted = {}
        /\ store \subseteq store0

C8_Witness ==
    /\ pc = "aborted"
    /\ files.boundaries.ok
    /\ ~files.signs.ok
    /\ \E k \in 1..Len(files.boundaries.features) :
           Accepted(files.boundaries.features[k], <<>>)
    /\ store0 # {}

(***************************************************************************)
(* C9.  A completed run with --clear whose boundary features have pairwise *)
(* distinct PMA and pairwise distinct OBJECTID reports updated = 0 and     *)
(* created = the number of accepted features, and leaves exactly one row   *)
(* per accepted feature, each written by this run, and no other row.  With *)
(* three features (two accepted, one without PMA) and one rainbow sign     *)
(* matching an accepted feature it reports created = 2, skipped = 1,       *)
(* with_signs = 1, without_signs = 1 and leaves 2 rows.                    *)
(***************************************************************************)
DistinctIds(features) ==
    \A a, b \in 1..Len(features) :
        a # b =>
            /\ (HasPma(features[a]) /\ HasPma(features[b])) =>
                   features[a].properties.PMA # features[b].properties.PMA
            /\ (features[a].properties.OBJECTID # Null
                /\ features[b].properties.OBJECTID # Null) =>
                   features[a].properties.OBJECTID # features[b].properties.OBJECTID

EndToEnd ==
    /\ Len(boundaries_data) = 3
    /\ Cardinality(AcceptedIndices) = 2
    /\ Cardinality({k \in 1..Len(boundaries_data) : ~HasPma(boundaries_data[k])}) = 1
    /\ Len(signs_data) = 1
    /\ signs_data[1].properties.SIGN_TP = NotNull("RAINBOW")
    /\ \E k \in AcceptedIndices :
           signs_data[1].properties.PMAID = NotNull(IdOf(boundaries_data[k]))

C9_ClearReloads ==
    (pc = "done" /\ clear /\ DistinctIds(boundaries_data)) =>
        /\ parks_updated = 0
        /\ parks_created = Cardinality(AcceptedIndices)
        /\ store = {RowOf(boundaries_data[k], signs_data) : k \in AcceptedIndices}
        /\ Cardinality(store) = Cardinality(AcceptedIndices)
        /\ \A r \in store : r.pma_id # Null /\ r.pma_id[1] \in upserted
        /\ EndToEnd =>
               /\ parks_created = 2
               /\ parks_skipped = 1
               /\ parks_with_signs = 1
               /\ parks_without_signs = 1
               /\ Cardinality(store) = 2

C9_Witness ==
    /\ pc = "done"
    /\ clear
    /\ DistinctIds(boundaries_data)
    /\ EndToEnd
    /\ store0 # {}
    /\ \E r \in store0 : r \notin store

(***************************************************************************)
(* C10.  During and after a run without --clear, every pma_id the table    *)
(* held at the start is still held, the table has at least as many rows,   *)
(* and a row whose pma_id no upsert of the run has written is still there  *)
(* with every field as it was.                                             *)
(***************************************************************************)
C10_NoDeletionWithoutClear ==
    (Running /\ ~clear) =>
        /\ \A r \in store0 : \E q \in store : q.pma_id = r.pma_id
        /\ Cardinality(store) >= Cardinality(store0)
        /\ \A r \in store0 : (r.pma_id = Null \/ r.pma_id[1] \notin upserted) => r \in store

C10_Witness ==
    /\ pc = "done"
    /\ ~clear
    /\ \E r \in store0 : r.pma_id[1] \notin upserted /\ r \in store
    /\ \E r \in store0 : r.pma_id[1] \in upserted /\ r \notin store
    /\ parks_skipped > 0

(***************************************************************************)
(* C3.  Every row of the table has has_rainbow_sign true exactly when      *)
(* rainbow_sign_locations is a serialised non-empty list, and false        *)
(* exactly when it is NULL.                                                *)
(***************************************************************************)
C3_SignFlagMatchesLocations ==
    \A r \in store :
        /\ r.has_rainbow_sign <=>
               (r.rainbow_sign_locations # Null
                /\ r.rainbow_sign_locations # NotNull(Dumps(<<>>)))
        /\ ~r.has_rainbow_sign <=> r.rainbow_sign_locations = Null

C3_Witness ==
    /\ pc = "done"
    /\ \E r \in store : r.has_rainbow_sign
    /\ \E r \in store : ~r.has_rainbow_sign
    /\ \E r \in store0 : \E q \in store :
           r.pma_id = q.pma_id /\ ~r.has_rainbow_sign /\ q.has_rainbow_sign

(***************************************************************************)
(* C4.  The row of every park id the run has upserted lists, in the input  *)
(* order of the signs collection, the projected point of each sign whose   *)
(* SIGN_TP is "RAINBOW" and whose PMAID is the park id, and of no other    *)
(* sign; NULL when there is none.                                          *)
(***************************************************************************)
ProjectedPoints(signs) ==
    [k \in 1..Len(signs) |->
        <<Num(signs[k].geometry.coordinates[1] - 124),
          Num(signs[k].geometry.coordinates[2] + 46)>>]

C4_LocationsAreMatchingRainbowSigns ==
    (pc \in {"loop", "done"}) =>
        \A id \in upserted :
            \A r \in RowsWithId(store, id) :
                LET m == MatchingSigns(signs_data, id)
                IN  r.rainbow_sign_locations =
                        IF Len(m) = 0 THEN Null ELSE NotNull(Dumps(ProjectedPoints(m)))

C4_Witness ==
    /\ pc = "done"
    /\ Len(signs_data) = 2
    /\ \E id \in upserted :
          /\ Len(MatchingSigns(signs_data, id)) = 1
          /\ \E k \in 1..2 :
                /\ signs_data[k].properties.PMAID = NotNull(id)
                /\ signs_data[k].properties.SIGN_TP # NotNull("RAINBOW")
          /\ \E r \in RowsWithId(store, id) : r.has_rainbow_sign

(***************************************************************************)
(* The boundary feature the next pass of the loop consumes.                *)
(***************************************************************************)
LoopStep == pc = "loop" /\ i < Len(boundaries_data)

Current == boundaries_data[i + 1]

(***************************************************************************)
(* C5.  Every row of the table has -123 < longitude < -121 and             *)
(* 47 < latitude < 48, and a pass of the loop over a named feature with a  *)
(* PMA whose centroid is not strictly inside that box adds one to skipped  *)
(* and writes nothing.                                                     *)
(***************************************************************************)
StrictlyInBox(r) ==
    /\ -123 * r.longitude[2] < r.longitude[1]
    /\ r.longitude[1] < -121 * r.longitude[2]
    /\ 47 * r.latitude[2] < r.latitude[1]
    /\ r.latitude[1] < 48 * r.latitude[2]

C5_BoundingBox ==
    /\ [](\A r \in store : StrictlyInBox(r))
    /\ [][(LoopStep /\ HasName(Current) /\ HasPma(Current) /\ ~CentroidInBox(Current)) =>
            /\ parks_skipped' = parks_skipped + 1
            /\ store' = store
            /\ parks_created' = parks_created
            /\ parks_updated' = parks_updated]_vars

C5_Witness ==
    /\ pc = "loop"
    /\ i = 2
    /\ Accepted(boundaries_data[1], signs_data)
    /\ calculate_centroid_wgs84(boundaries_data[2].geometry) = <<Num(-123), <<95, 2>> >>
    /\ parks_skipped = 1
    /\ store = {RowOf(boundaries_data[1], signs_data)}

(***************************************************************************)
(* C6.  No row of the table has an empty or placeholder name or a NULL     *)
(* pma_id, and a pass of the loop over a feature whose NAME is absent,     *)
(* empty or "Unknown Park", or whose PMA is absent, adds one to skipped    *)
(* and changes neither another counter nor the table.                      *)
(***************************************************************************)
C6_RequiredProperties ==
    /\ [](\A r \in store : r.name \notin {"", "Unknown Park"} /\ r.pma_id # Null)
    /\ [][(LoopStep /\ (\/ Current.properties.NAME = Null
                        \/ Current.properties.NAME = NotNull("")
                        \/ Current.properties.NAME = NotNull("Unknown Park")
                        \/ Current.properties.PMA = Null)) =>
            /\ parks_skipped' = parks_skipped + 1
            /\ UNCHANGED <<parks_with_signs, parks_without_signs, parks_created,
                           parks_updated, store>>]_vars

C6_Witness ==
    /\ pc = "loop"
    /\ i = 2
    /\ Accepted(boundaries_data[1], signs_data)
    /\ boundaries_data[2].properties.NAME = NotNull("Unknown Park")
    /\ Len(MatchingSigns(signs_data, IdOf(boundaries_data[2]))) > 0
    /\ parks_skipped = 1
    /\ parks_with_signs = 1
    /\ store = {RowOf(boundaries_data[1], signs_data)}

(***************************************************************************)
(* C7.  A pass of the loop that raises (a matched sign or the boundary has *)
(* a point with too few coordinates, the outer ring has a point that is an *)
(* object, or the upsert fails on the unique external_id) adds one to skipped, leaves the table as it was and moves  *)
(* on to the next feature; the loop never ends the command early: each    *)
(* of its steps consumes one feature or is the report, and i never passes  *)
(* the number of features, so the report is reached after as many steps    *)
(* as there are features.                                                  *)
(***************************************************************************)
Clashes(feature, objects) ==
    LET e == ExternalId(feature.properties.OBJECTID)
    IN  /\ e # Null
        /\ \E r \in objects : r.external_id = e /\ r.pma_id # NotNull(IdOf(feature))

Fails(feature, signs, objects) ==
    /\ HasName(feature)
    /\ HasPma(feature)
    /\ \/ CentroidRaises(feature.geometry)
       \/ LET m == MatchingSigns(signs, IdOf(feature))
          IN  \E k \in 1..Len(m) : SignRaises(m[k])
       \/ CentroidInBox(feature) /\ TransformGeometryRaises(feature.geometry)
       \/ Accepted(feature, signs) /\ Clashes(feature, objects)

C7_FailureIsCaught ==
    /\ [][(LoopStep /\ Fails(Current, signs_data, store)) =>
            /\ parks_skipped' = parks_skipped + 1
            /\ parks_created' = parks_created
            /\ parks_updated' = parks_updated
            /\ store' = store
            /\ i' = i + 1
            /\ pc' = "loop"]_vars
    /\ [][pc = "loop" => pc' \in {"loop", "done"}]_vars
    /\ [][(pc = "loop" /\ pc' = "loop") => i' = i + 1]_vars
    /\ [](pc = "loop" => i <= Len(boundaries_data))

C7_Witness ==
    /\ pc = "done"
    /\ Len(boundaries_data) = 3
    /\ Accepted(boundaries_data[1], signs_data)
    /\ Fails(boundaries_data[2], signs_data, {})
    /\ Accepted(boundaries_data[3], signs_data)
    /\ parks_skipped = 1
    /\ IdOf(boundaries_data[1]) # IdOf(boundaries_data[3])
    /\ {RowOf(boundaries_data[1], signs_data), RowOf(boundaries_data[3], signs_data)}
           \subseteq store

(***************************************************************************)
(* C11.  A pass of the loop over a named feature with a PMA whose geometry *)
(* type is neither Polygon nor MultiPolygon, or whose selected ring (the   *)
(* outer ring of the Polygon, the outer ring of the first polygon of the   *)
(* MultiPolygon) is missing, empty or has a point that is not a list of at *)
(* least two coordinates: the centroid computation raises nothing and      *)
(* gives (0, 0), and the pass adds one to skipped and writes nothing.      *)
(* And a pass that creates or updates a row has a Polygon or MultiPolygon  *)
(* as its source and stores a boundary_geojson of that same type.          *)
(***************************************************************************)
WellFormedPoint(point) == point.json = "array" /\ Len(point.items) >= 2

BadRing(ring) == Len(ring) = 0 \/ \E k \in 1..Len(ring) : ~WellFormedPoint(ring[k])

BadGeometry(geometry) ==
    LET geom_type == Get(geometry.type, "")
        coords == Get(geometry.coordinates, <<>>)
    IN  IF geom_type = "Polygon" THEN Len(coords) = 0 \/ BadRing(coords[1])
        ELSE IF geom_type = "MultiPolygon"
        THEN Len(coords) = 0 \/ Len(coords[1]) = 0 \/ BadRing(coords[1][1])
        ELSE TRUE

Writes == parks_created' + parks_updated' > parks_created + parks_updated

C11_MalformedGeometryRejected ==
    /\ [][(LoopStep /\ HasName(Current) /\ HasPma(Current)
              /\ BadGeometry(Current.geometry)) =>
            /\ ~CentroidRaises(Current.geometry)
            /\ calculate_centroid_wgs84(Current.geometry) = Sentinel
            /\ parks_skipped' = parks_skipped + 1
            /\ UNCHANGED <<store, parks_created, parks_updated>>]_vars
    /\ [][(LoopStep /\ Writes) =>
            LET source == Get(Current.geometry.type, "")
                stored == transform_geometry(Current.geometry)
            IN  /\ source \in {"Polygon", "MultiPolygon"}
                /\ stored.type = source
                /\ \E r \in store' :
                       /\ r.pma_id = NotNull(IdOf(Current))
                       /\ r.boundary_geojson = NotNull(Dumps(stored))]_vars

(***************************************************************************)
(* C12.  When an invocation has aborted because one of the two files could *)
(* not be loaded, the table is the table the invocation started with,      *)
(* whether it ran with --clear or without.                                 *)
(***************************************************************************)
C12_AbortLeavesStore == pc = "aborted" => store = store0

(***************************************************************************)
(* C13.  Every pass of the loop adds one to exactly one of created,        *)
(* updated and skipped and leaves the other two as they were, whatever     *)
(* the feature is; so created + updated + skipped is the number of         *)
(* features consumed while the loop runs, and the number of boundary       *)
(* features of the input when the run is complete.                         *)
(***************************************************************************)
Counted == parks_created + parks_updated + parks_skipped

C13_CountersPartitionFeatures ==
    /\ [](pc \in {"loop", "done"} => Counted = i)
    /\ [](pc = "done" => Counted = Len(boundaries_data))
    /\ [](pc = "done" => boundaries_data = files.boundaries.features)
    /\ [][LoopStep =>
            \/ /\ parks_created' = parks_created + 1
               /\ UNCHANGED <<parks_updated, parks_skipped>>
            \/ /\ parks_updated' = parks_updated + 1
               /\ UNCHANGED <<parks_created, parks_skipped>>
            \/ /\ parks_skipped' = parks_skipped + 1
               /\ UNCHANGED <<parks_created, parks_updated>>]_vars

C13_Witness ==
    /\ pc = "done"
    /\ ~clear
    /\ Len(boundaries_data) = 3
    /\ parks_created = 1
    /\ parks_updated = 1
    /\ parks_skipped = 1
    /\ \E k \in 1..3 :
           Accepted(boundaries_data[k], signs_data) /\ Clashes(boundaries_data[k], store0)

(***************************************************************************)
(* C14.  At every moment no two rows of the table have the same pma_id or  *)
(* the same non-NULL external_id.  A pass of the loop over a feature that  *)
(* reaches the upsert while a row with another pma_id holds the string of  *)
(* its OBJECTID as external_id adds one to skipped, adds nothing to        *)
(* created or updated, and leaves the table as it was.                     *)
(***************************************************************************)
C14_UniqueIds ==
    /\ [](\A r, q \in store :
            r # q =>
                /\ r.pma_id # q.pma_id
                /\ r.external_id # Null => r.external_id # q.external_id)
    /\ [][(LoopStep /\ Accepted(Current, signs_data) /\ Clashes(Current, store)) =>
            /\ parks_skipped' = parks_skipped + 1
            /\ UNCHANGED <<parks_created, parks_updated, store>>]_vars

C14_Witness ==
    /\ pc = "done"
    /\ Len(boundaries_data) = 3
    /\ \A k \in 1..3 : Accepted(boundaries_data[k], signs_data)
    /\ Clashes(boundaries_data[2], store)
    /\ ~Clashes(boundaries_data[3], store)
    /\ parks_skipped = 1
    /\ parks_created = 2
    /\ Cardinality(store) = 2
    /\ \A r \in store : r.external_id # Null

====
